---- MODULE Spec2Model ----
(***************************************************************************)
(* MAVLink v2 streaming frame codec (src/mavlink/codec.rs) and telemetry   *)
(* session (src/mavlink/telem.rs) of metec-sensor.                          *)
(*                                                                         *)
(* Bytes are the integers 0..255, a buffer (bytes::BytesMut) is a sequence *)
(* of bytes whose head is the read cursor: advancing the cursor drops the  *)
(* head of the sequence.                                                   *)
(***************************************************************************)
EXTENDS Integers, Sequences, FiniteSets, TLC

\* mavlink::MAV_STX_V2, the marker the decoder searches for.
MAV_STX_V2 == 253

Byte == 0..255

(***************************************************************************)
(* Byte and bit arithmetic.                                                *)
(***************************************************************************)
\* Exclusive or of two 4-bit values, bit by bit.
XorBits4(a, b) ==
    ((a + b) % 2)
        + 2 * (((a \div 2) + (b \div 2)) % 2)
        + 4 * (((a \div 4) + (b \div 4)) % 2)
        + 8 * (((a \div 8) + (b \div 8)) % 2)

\* Exclusive or of two bytes a and b, tabulated once at index 256 * a + b + 1.
XorByteTable ==
    [n \in 1..65536 |->
        XorBits4(((n - 1) \div 256) % 16, (n - 1) % 16)
            + 16 * XorBits4((n - 1) \div 4096, ((n - 1) \div 16) % 16)] \o << >>

\* Exclusive or of two 16-bit values.
Xor16 ==
    [a \in Nat, b \in Nat |->
        XorByteTable[256 * (a % 256) + (b % 256) + 1]
            + 256 * XorByteTable[256 * (a \div 256) + (b \div 256) + 1]]

Xor(a, b) == Xor16[a, b]

RECURSIVE Pow2(_)
Pow2(n) == IF n = 0 THEN 1 ELSE 2 * Pow2(n - 1)

\* Buf::advance(n): the buffer without its first n bytes.
Advance(s, n) == SubSeq(s, n + 1, Len(s))

\* The first n bytes of a buffer (BytesMut::split_to(n) returns them).
Take(s, n) == SubSeq(s, 1, n)

\* u32::to_le_bytes / u32::from_le_bytes.
LeBytes4(v) ==
    << v % 256, (v \div 256) % 256, (v \div 65536) % 256, (v \div 16777216) % 256 >>

FromLeBytes4(b) == b[1] + 256 * b[2] + 65536 * b[3] + 16777216 * b[4]

(***************************************************************************)
(* CRC-16/MCRF4XX (crc_any::CRCu16::crc16mcrf4cc): reflected polynomial    *)
(* 0x8408, initial value 0xFFFF, no final xor.                             *)
(***************************************************************************)
\* One shift of the register: the low bit selects the polynomial 0x8408.
CrcShift1 == [c \in Nat |-> IF c % 2 = 1 THEN Xor16[c \div 2, 33800] ELSE c \div 2]

\* The effect of eight shifts on each low byte i, tabulated once at i + 1.
CrcTable ==
    [n \in 1..256 |->
        CrcShift1[CrcShift1[CrcShift1[CrcShift1[CrcShift1[CrcShift1[CrcShift1[CrcShift1[
            n - 1]]]]]]]]] \o << >>

\* CRCu16::digest of one byte: the byte is xored into the low byte of the
\* register, which selects the table entry xored into the remaining high byte.
CrcByteFn ==
    [c \in Nat, b \in Nat |-> Xor16[c \div 256, CrcTable[Xor16[c % 256, b] + 1]]]

CrcByte(c, b) == CrcByteFn[c, b]

\* The longest slice digested in one go; a longer one is digested block
\* after block, which gives the same register.
CrcBlock == 32

\* CRCu16::digest of a slice of at most CrcBlock bytes, byte by byte.
CrcDigestBlock(c, s) ==
    LET reg[i \in 0..Len(s)] == IF i = 0 THEN c ELSE CrcByteFn[reg[i - 1], s[i]]
    IN reg[Len(s)]

\* CRCu16::digest of a slice, byte by byte.
RECURSIVE CrcDigest(_, _)
CrcDigest(c, s) ==
    IF Len(s) <= CrcBlock
    THEN CrcDigestBlock(c, s)
    ELSE CHOOSE d \in { CrcDigest(r, rest) :
                           r \in { CrcDigestBlock(c, Take(s, CrcBlock)) },
                           rest \in { Advance(s, CrcBlock) } } : TRUE

\* CRCu16::crc16mcrf4cc(): the initial register.
CrcInit == 65535

(***************************************************************************)
(* The message catalog (mavlink::common::MavMessage), as far as the codec  *)
(* uses it: extra_crc, ser (inside write_v2_msg) and parse.  A message is  *)
(* a record; HEARTBEAT has message id 0 and a 9-byte payload, whose enum   *)
(* fields parse can reject.  GLOBAL_POSITION_INT (33, 28 bytes) and        *)
(* NAMED_VALUE_FLOAT (251, 18 bytes) hold only numbers and characters and  *)
(* are kept as their full-width payload.  Message id 3 is not in the       *)
(* dialect.                                                                *)
(***************************************************************************)
HeartbeatData(custom_mode, mavtype, autopilot, base_mode, system_status, version) ==
    [ id             |-> 0,
      custom_mode    |-> custom_mode,
      mavtype        |-> mavtype,
      autopilot      |-> autopilot,
      base_mode      |-> base_mode,
      system_status  |-> system_status,
      mavlink_version |-> version ]

\* Telem::heartbeat_message: MAV_TYPE_ONBOARD_CONTROLLER = 18,
\* MAV_AUTOPILOT_INVALID = 8, MavModeFlag::empty() = 0, MAV_STATE_STANDBY = 3.
heartbeat_message == HeartbeatData(0, 18, 8, 0, 3, 3)

\* M::extra_crc(msgid): the seed of a known message id, 0 for an unknown one.
extra_crc(msgid) ==
    CASE msgid = 0   -> 50
      [] msgid = 33  -> 104
      [] msgid = 251 -> 170
      [] OTHER       -> 0

\* The full-width payload of a message (MessageData::ser before truncation).
SerFull(msg) ==
    IF msg.id = 0
    THEN LeBytes4(msg.custom_mode)
             \o << msg.mavtype, msg.autopilot, msg.base_mode, msg.system_status,
                   msg.mavlink_version >>
    ELSE msg.payload

\* MAVLink 2 payload truncation: trailing zero bytes are not sent, but at
\* least one byte always is.
RECURSIVE remove_trailing_zeroes(_)
remove_trailing_zeroes(p) ==
    IF Len(p) > 1 /\ p[Len(p)] = 0
    THEN remove_trailing_zeroes(SubSeq(p, 1, Len(p) - 1))
    ELSE p

\* Message::ser for MavlinkVersion::V2.
ser(msg) == remove_trailing_zeroes(SerFull(msg))

\* The payload zero-extended (or cut) to the message's encoded length.
ZeroExtend(p, n) == [i \in 1..n |-> IF i <= Len(p) THEN p[i] ELSE 0]

\* M::parse(MavlinkVersion::V2, msgid, payload): a message, or a ParserError
\* for an unknown message id or a value that is no variant of its enum.
parse(msgid, payload) ==
    IF msgid = 33
    THEN [ok |-> TRUE, msg |-> [id |-> 33, payload |-> ZeroExtend(payload, 28)]]
    ELSE IF msgid = 251
    THEN [ok |-> TRUE, msg |-> [id |-> 251, payload |-> ZeroExtend(payload, 18)]]
    ELSE IF msgid # 0
    THEN [ok |-> FALSE, err |-> "UnknownMessage"]
    ELSE LET b == ZeroExtend(payload, 9)
         IN IF b[5] \notin 0..42 \/ b[6] \notin 0..20 \/ b[8] \notin 0..8
            THEN [ok |-> FALSE, err |-> "InvalidEnum"]
            ELSE [ok |-> TRUE,
                  msg |-> HeartbeatData(FromLeBytes4(SubSeq(b, 1, 4)),
                                        b[5], b[6], b[7], b[8], b[9])]

(***************************************************************************)
(* MavMessageCodec::encode: mavlink::write_v2_msg appended to dst.         *)
(***************************************************************************)
MavHeader(sequence, system_id, component_id) ==
    [sequence |-> sequence, system_id |-> system_id, component_id |-> component_id]

\* The frame with explicit incompatibility flags and trailer; write_v2_msg
\* writes flags 0 and no trailer.
Frame(header, msgid, payload, incompat_flags, trailer) ==
    LET header_buf == << Len(payload), incompat_flags, 0, header.sequence,
                         header.system_id, header.component_id >>
                      \o SubSeq(LeBytes4(msgid), 1, 3)
        crc == CrcByte(CrcDigest(CrcDigest(CrcInit, header_buf), payload),
                       extra_crc(msgid))
    IN << MAV_STX_V2 >> \o header_buf \o payload
          \o << crc % 256, crc \div 256 >> \o trailer

write_v2_msg(header, data) == Frame(header, data.id, ser(data), 0, << >>)

encode(header, data, dst) == dst \o write_v2_msg(header, data)

(***************************************************************************)
(* MavMessageCodec::decode.  The result is the value returned (ret), the   *)
(* buffer as decode leaves it (src), the path taken through the function   *)
(* (branch), the number of bytes dropped in front of the marker (index)    *)
(* and the number of bytes consumed from the marker on (taken).            *)
(***************************************************************************)
None == [kind |-> "None"]

Some(header, msg) == [kind |-> "Some", header |-> header, msg |-> msg]

\* SensorError::MavlinkParsingError(#[from] ParserError).
MavlinkParsingError == [kind |-> "Err", err |-> "MavlinkParsingError"]

\* src.iter().position(|&byte| byte == MAV_STX_V2): 0-based, -1 for None.
RECURSIVE PositionFrom(_, _)
PositionFrom(s, i) ==
    IF i > Len(s) THEN -1
    ELSE IF s[i] = MAV_STX_V2 THEN i - 1
    ELSE PositionFrom(s, i + 1)

\* A scan that takes the first byte of the buffer for the marker.
PositionFirstByte(s) == IF s = << >> THEN -1 ELSE 0

Position(s) == PositionFrom(s, 1)

\* message_len: header with marker (10) and CRC (2), the payload, and the
\* signature trailer (13) of a signed frame.
MessageLen(payload_len, has_signature) ==
    12 + payload_len + (IF has_signature THEN 13 ELSE 0)

\* flags & 0x01 == 0x01 (MAVLINK_IFLAG_SIGNED).
HasSignature(flags) == flags % 2 = 1

\* A decoder that waits for one byte more than the frame holds.
FrameBufferedStrict(remaining, message_len) == remaining > message_len

\* src.remaining() >= message_len
FrameBuffered(remaining, message_len) == remaining >= message_len

\* A decoder that reads the CRC but does not compare it.
CrcMatchesAny(recvd_crc, crc) == TRUE

\* recvd_crc == crc
CrcMatches(recvd_crc, crc) == recvd_crc = crc

\* A decoder that reads the system and component ids in the other order.
DecodedHeaderSwapped(seq, sysid, compid) == MavHeader(seq, compid, sysid)

\* The header handed to the caller with an accepted message.
DecodedHeader(seq, sysid, compid) == MavHeader(seq, sysid, compid)

\* A decoder that rejects the candidate and leaves the buffer at its marker.
MismatchRestKeep(s0, s5) == s0

\* The buffer decode leaves behind on a CRC mismatch: the extraction has
\* already consumed the candidate (s5), nothing is put back.
MismatchRest(s0, s5) == s5

\* A decoder that leaves the signature of a signed frame in the buffer.
SkipSignatureNever(s4, has_signature) == s4

\* if has_signature { src.advance(13); }
SkipSignature(s4, has_signature) ==
    IF has_signature THEN Advance(s4, 13) ELSE s4

\* The buffer decode leaves behind when M::parse fails: the frame has been
\* consumed (s5) before the `?` returns the error.
ParseErrorRest(s0, s5) == s5

\* A decoder that discards a partial frame.
SuspendRestDiscard(s0) == << >>

\* The buffer decode leaves behind when it returns Ok(None) for want of
\* bytes: everything from the marker on.
SuspendRest(s0) == s0

\* An extraction that takes the payload for one byte shorter than it is.
ExtractedLenShort(s1) == IF s1[1] > 0 THEN s1[1] - 1 ELSE 0

\* let payload_len = src.get_u8() as usize: the length byte read again, off
\* the buffer that starts behind the marker.
ExtractedLen(s1) == s1[1]

DecodeResult(branch, ret, before, index, after) ==
    [ branch |-> branch, ret |-> ret, src |-> after, index |-> index,
      taken |-> Len(before) - index - Len(after) ]

\* Lines 69-122: the whole candidate frame is read off the buffer, then the
\* CRC is checked and the payload parsed.  s0 starts at the marker.
Extract(before, index, s0, has_signature) ==
    LET s1 == Advance(s0, 1)                      \* skip over STX
        payload_len == ExtractedLen(s1)
        incompat_flags == s1[2]
        compat_flags == s1[3]
        seq == s1[4]
        sysid == s1[5]
        compid == s1[6]
        msgid_buf == << s1[7], s1[8], s1[9], 0 >>
        s2 == Advance(s1, 9)
        header_buf == << payload_len, incompat_flags, compat_flags, seq, sysid,
                         compid, msgid_buf[1], msgid_buf[2], msgid_buf[3] >>
        msgid == FromLeBytes4(msgid_buf)
        payload == Take(s2, payload_len)          \* src.split_to(payload_len)
        s3 == Advance(s2, payload_len)
        crc == s3[1] + 256 * s3[2]                \* src.get_u16_le()
        s4 == Advance(s3, 2)
        s5 == SkipSignature(s4, has_signature)
        recvd_crc == CrcByte(CrcDigest(CrcDigest(CrcInit, header_buf), payload),
                             extra_crc(msgid))
    IN IF CrcMatches(recvd_crc, crc)
       THEN LET p == parse(msgid, payload)
            IN IF p.ok
               THEN DecodeResult("accepted",
                                 Some(DecodedHeader(seq, sysid, compid), p.msg),
                                 before, index, s5)
               ELSE DecodeResult("parse_error", MavlinkParsingError,
                                 before, index, ParseErrorRest(s0, s5))
       ELSE DecodeResult("crc_mismatch", None, before, index, MismatchRest(s0, s5))

decode(src) ==
    LET index == Position(src)
    IN IF index < 0
       THEN DecodeResult("no_marker", None, src, 0, src)
       ELSE LET s0 == Advance(src, index)
            IN IF Len(s0) < 2
               THEN DecodeResult("need_len", None, src, index, SuspendRest(s0))
               ELSE IF Len(s0) < 3
               THEN DecodeResult("need_flags", None, src, index, SuspendRest(s0))
               ELSE LET payload_len == s0[2]
                        has_signature == HasSignature(s0[3])
                        message_len == MessageLen(payload_len, has_signature)
                    IN IF FrameBuffered(Len(s0), message_len)
                       THEN Extract(src, index, s0, has_signature)
                       ELSE DecodeResult("need_more", None, src, index, SuspendRest(s0))

(***************************************************************************)
(* The byte streams a peer may put on the link: well-formed frames, frames *)
(* with one payload bit flipped, noise holding a false marker, and frames  *)
(* with a valid CRC that the catalog cannot parse.                         *)
(***************************************************************************)
MaxItems == 2

\* Flip bit n (0 = lowest bit of the first payload byte) of a frame's payload.
FlipPayloadBit(frame, n) ==
    [frame EXCEPT ![11 + n \div 8] = Xor(@, Pow2(n % 8))]

ValidItem(header, msg) ==
    [kind |-> "valid", bytes |-> write_v2_msg(header, msg), expect |-> Some(header, msg)]

CorruptItem(header, msg, n) ==
    [kind |-> "corrupt", bytes |-> FlipPayloadBit(write_v2_msg(header, msg), n),
     expect |-> None]

NoiseItem(bytes) == [kind |-> "noise", bytes |-> bytes, expect |-> None]

\* A frame with a matching CRC whose payload the catalog rejects.
UnparsedItem(header, msgid, payload) ==
    [kind |-> "unparsed", bytes |-> Frame(header, msgid, payload, 0, << >>),
     expect |-> None]

PeerMessages ==
    { HeartbeatData(0, 2, 3, 81, 4, 3),
      HeartbeatData(253, 18, 8, 0, 3, 3),
      HeartbeatData(1, 0, 0, 0, 0, 0) }

PeerHeaders ==
    { MavHeader(seq, sys, 1) : seq \in {0, 7, 253, 255}, sys \in {1, 253} }

AllValid == { ValidItem(h, m) : h \in PeerHeaders, m \in PeerMessages }

CoreItems ==
    { ValidItem(MavHeader(7, 1, 1), HeartbeatData(0, 2, 3, 81, 4, 3)),
      ValidItem(MavHeader(253, 1, 1), HeartbeatData(1, 0, 0, 0, 0, 0)),
      CorruptItem(MavHeader(7, 1, 1), HeartbeatData(0, 2, 3, 81, 4, 3), 35),
      NoiseItem(<< 253, 0, 0 >>),
      NoiseItem(<< 253 >>),
      NoiseItem(<< 0, 17 >>),
      UnparsedItem(MavHeader(7, 1, 1), 0, << 0, 0, 0, 0, 255, 8, 0, 3, 3 >>),
      UnparsedItem(MavHeader(7, 1, 1), 3, << 1, 2 >>) }

Streams ==
    { << i >> : i \in AllValid }
        \cup UNION { [1..n -> CoreItems] : n \in 1..MaxItems }

RECURSIVE StreamBytes(_)
StreamBytes(st) ==
    IF st = << >> THEN << >> ELSE Head(st).bytes \o StreamBytes(Tail(st))

\* The number of stream bytes in front of item i.
Offset(st, i) == Len(StreamBytes(SubSeq(st, 1, i - 1)))

(***************************************************************************)
(* The decoder driven over a stream: the bytes arrive in chunks of any     *)
(* size, decode runs after each append and may run again without input.    *)
(***************************************************************************)
VARIABLES
    stream,     \* the items the peer sends, in order
    wire,       \* the bytes of the stream that have not arrived yet
    src,        \* the decode buffer (the read buffer of the Framed)
    last,       \* the outcome of the latest decode call
    got,        \* the items decode has returned, in order
    rejected,   \* the number of candidates decode has rejected for their CRC
    suspended,  \* decode has returned at a marker for want of bytes
    \* Framed<SerialStream, MavMessageCodec>: the read half
    is_readable, eof, has_errored,
    closed,     \* the link has reached its end: a read of no bytes is next
    recvState,  \* "idle", or "awaiting" when recv is suspended in a read
    recvRet,    \* the value the latest recv call returned
    \* Telem
    system_id, component_id,
    sequence,   \* the AtomicU8 sequence counter
    wbuf,       \* the write buffer of the Framed
    written,    \* the bytes the latest send call wrote to the link
    encoded,    \* the bytes the latest send call encoded
    sendRet,    \* the value the latest send call returned
    sendState,  \* "idle", or "pending" when send is suspended in its flush
    sendCount,  \* the number of send calls so far
    failures,   \* the number of send calls that failed
    sentHeader, \* the header the latest send call built
    sentMsg,    \* the message the latest send call was given
    built,      \* the message the latest heartbeat_message call returned
    sentName,   \* the name the latest send_float call was given
    \* heartbeat_stream and the main loop of the sensor binary
    now,        \* the clock
    period,     \* the period of the heartbeat interval
    deadline,   \* the instant the next tick of the interval is due
    ticks,      \* the instants at which the stream has yielded a trigger
    pc          \* the statement of main the program is at

codecVars == << stream, wire, src, last, got, rejected, suspended >>

framedVars == << is_readable, eof, has_errored, closed, recvState, recvRet >>

telemVars ==
    << system_id, component_id, sequence, wbuf, written, encoded, sendRet,
       sendState, sendCount, failures, sentHeader, sentMsg, built >>

loopVars == << sentName, now, period, deadline, ticks, pc >>

vars == << codecVars, framedVars, telemVars, loopVars >>

NoCall == [branch |-> "none", ret |-> None, index |-> 0, taken |-> 0]

Outcome(r) == [branch |-> r.branch, ret |-> r.ret, index |-> r.index, taken |-> r.taken]

Waiting(branch) == branch \in {"need_len", "need_flags", "need_more"}

NotCalled == [kind |-> "NotCalled"]

\* An empty decode buffer in front of the stream st.
CodecInit(st) ==
    /\ stream = st
    /\ wire = StreamBytes(st)
    /\ src = << >>
    /\ last = NoCall
    /\ got = << >>
    /\ rejected = 0
    /\ suspended = FALSE

\* Framed::new(port, codec).
FramedInit ==
    /\ is_readable = FALSE
    /\ eof = FALSE
    /\ has_errored = FALSE
    /\ closed = FALSE
    /\ recvState = "idle"
    /\ recvRet = NotCalled

\* Telem::try_new(serial_port, baud_rate, system_id, component_id).
try_new(sys, comp) ==
    /\ system_id = sys
    /\ component_id = comp
    /\ sequence = 0
    /\ wbuf = << >>
    /\ written = << >>
    /\ encoded = << >>
    /\ sendRet = NotCalled
    /\ sendState = "idle"
    /\ sendCount = 0
    /\ failures = 0
    /\ sentHeader = MavHeader(0, sys, comp)
    /\ sentMsg = NotCalled
    /\ built = NotCalled

\* No heartbeat stream has been created and main is not running.
NoLoop ==
    /\ sentName = << >>
    /\ now = 0
    /\ period = 1
    /\ deadline = 0
    /\ ticks = << >>
    /\ pc = "none"

Init ==
    /\ \E st \in Streams : CodecInit(st)
    /\ FramedInit
    /\ try_new(1, 1)
    /\ NoLoop

\* One decode call on the buffer `buf`.
RunDecode(buf) ==
    \E r \in {decode(buf)} :
       /\ src' = r.src
       /\ last' = Outcome(r)
       /\ got' = IF r.ret.kind = "Some" THEN Append(got, r.ret) ELSE got
       /\ rejected' = IF r.branch = "crc_mismatch" THEN rejected + 1 ELSE rejected
       /\ suspended' = (suspended \/ Waiting(r.branch))

\* A chunk of k bytes arrives and is appended, then decode runs.
Feed(k) ==
    /\ k \in 1..Len(wire)
    /\ wire' = Advance(wire, k)
    /\ RunDecode(src \o Take(wire, k))
    /\ UNCHANGED << stream, framedVars, telemVars >>
    /\ UNCHANGED loopVars

\* decode runs again on the buffer as it is.
DecodeAgain ==
    /\ last.branch # "none"
    /\ RunDecode(src)
    /\ UNCHANGED << stream, wire, framedVars, telemVars >>
    /\ UNCHANGED loopVars

Next ==
    \/ \E k \in 1..Len(wire) : Feed(k)
    \/ DecodeAgain

Spec == Init /\ [][Next]_vars

\* decode is run until it has nothing more to report.
FairSpec == Spec /\ WF_vars(DecodeAgain)

(***************************************************************************)
(* One frame with one payload bit flipped, for every bit of the payload.   *)
(***************************************************************************)
FlipHeaders == { MavHeader(7, 1, 1), MavHeader(253, 253, 1) }

FlipStreams ==
    UNION { { << CorruptItem(h, m, n) >> : n \in 0..(8 * Len(ser(m)) - 1) } :
            h \in FlipHeaders, m \in PeerMessages }

InitFlip ==
    /\ \E st \in FlipStreams : CodecInit(st)
    /\ FramedInit
    /\ try_new(1, 1)
    /\ NoLoop

SpecFlip == InitFlip /\ [][Next]_vars

(***************************************************************************)
(* Signed frames: incompatibility flag bit 0 set and a 13-byte signature   *)
(* after the CRC, well-formed or with one payload bit flipped, alone or    *)
(* followed by an unsigned well-formed frame.                              *)
(***************************************************************************)
SignedItem(header, msg, trailer) ==
    [kind |-> "signed", bytes |-> Frame(header, msg.id, ser(msg), 1, trailer),
     expect |-> Some(header, msg)]

SignedCorruptItem(header, msg, trailer, n) ==
    [kind |-> "signed_corrupt",
     bytes |-> FlipPayloadBit(Frame(header, msg.id, ser(msg), 1, trailer), n),
     expect |-> None]

Trailers ==
    { [i \in 1..13 |-> 0], [i \in 1..13 |-> MAV_STX_V2], [i \in 1..13 |-> 16 * i + 7] }

SignedFirst ==
    { SignedItem(MavHeader(7, 1, 1), m, t) :
        m \in { HeartbeatData(0, 2, 3, 81, 4, 3), HeartbeatData(1, 0, 0, 0, 0, 0) },
        t \in Trailers }
    \cup { SignedCorruptItem(MavHeader(7, 1, 1), HeartbeatData(1, 0, 0, 0, 0, 0), t, n) :
            t \in Trailers, n \in {0, 5} }

SignedStreams ==
    { << i >> : i \in SignedFirst }
        \cup { << i, ValidItem(MavHeader(253, 1, 1), HeartbeatData(1, 0, 0, 0, 0, 0)) >> :
               i \in SignedFirst }

InitSigned ==
    /\ \E st \in SignedStreams : CodecInit(st)
    /\ FramedInit
    /\ try_new(1, 1)
    /\ NoLoop

SpecSigned == InitSigned /\ [][Next]_vars

(***************************************************************************)
(* Frames of the greatest length: a payload of 255 bytes, unsigned and     *)
(* signed, with a matching CRC (message id 3, which the catalog does not   *)
(* know) or with one payload bit flipped, alone or followed by a           *)
(* well-formed frame.  The bytes arrive one at a time, LongChunk at a time *)
(* or all at once.                                                         *)
(***************************************************************************)
LongChunk == 64

LongPayload == [i \in 1..255 |-> IF i % 50 = 0 THEN MAV_STX_V2 ELSE i % 200]

LongItem(flags, trailer) ==
    [kind |-> "unparsed",
     bytes |-> Frame(MavHeader(7, 1, 1), 3, LongPayload, flags, trailer),
     expect |-> None]

LongCorruptItem(flags, trailer) ==
    [kind |-> "corrupt",
     bytes |-> FlipPayloadBit(Frame(MavHeader(7, 1, 1), 3, LongPayload, flags, trailer), 9),
     expect |-> None]

LongFirst ==
    { LongItem(0, << >>), LongItem(1, [i \in 1..13 |-> 16 * i + 7]),
      LongCorruptItem(0, << >>), LongCorruptItem(1, [i \in 1..13 |-> MAV_STX_V2]) }

LongStreams ==
    { << i >> : i \in LongFirst }
        \cup { << i, ValidItem(MavHeader(253, 1, 1), HeartbeatData(1, 0, 0, 0, 0, 0)) >> :
               i \in LongFirst }

InitLong ==
    /\ \E st \in LongStreams : CodecInit(st)
    /\ FramedInit
    /\ try_new(1, 1)
    /\ NoLoop

NextLong ==
    \/ \E k \in {1, LongChunk, Len(wire)} : Feed(k)
    \/ DecodeAgain

SpecLong == InitLong /\ [][NextLong]_vars

\* The number of bytes decode has consumed from the stream so far.
Cursor == Len(StreamBytes(stream)) - Len(wire) - Len(src)

\* The latest decode call found nothing to report.
Quiescent == last.branch \in {"none", "no_marker", "need_len", "need_flags", "need_more"}

(***************************************************************************)
(* Telem::send.  The call advances the counter and builds the header, then *)
(* awaits the Framed sink, which encodes the item into its write buffer    *)
(* and flushes the buffer to the serial stream.  The port takes the bytes  *)
(* it can: the flush completes when the buffer is empty and the port       *)
(* flushed, suspends the call when the port is not ready, and fails with   *)
(* the port's error.  What the port has taken is on the link and what it   *)
(* has not stays in the write buffer, for the next flush to write.  A      *)
(* suspended call is resumed by a later poll.                              *)
(***************************************************************************)
MaxSends == 258

MaxSendFailures == 1

MaxSessionSends == 2

\* The number of bytes a port that takes part of the buffer takes.
PartialWrite == 5

\* A counter that stops at 255 instead of wrapping.
fetch_add_saturating(v) == IF v = 255 THEN 255 ELSE v + 1

\* A counter that is read but not advanced.
fetch_add_load(v) == v

\* A counter that advances by two.
fetch_add_twice(v) == (v + 2) % 256

\* AtomicU8::fetch_add(1, Relaxed): the value stored; the call returns the
\* previous value.
fetch_add(v) == (v + 1) % 256

Ok == [kind |-> "Ok"]

\* SensorError::MavlinkConnectionError(#[from] std::io::Error).
MavlinkConnectionError == [kind |-> "Err", err |-> "MavlinkConnectionError"]

SendMessages == { heartbeat_message, HeartbeatData(1, 0, 0, 0, 0, 0) }

\* What one poll of the flush comes to: the call returns Ok, is suspended,
\* or returns the port's error.
SendOutcomes == { "ready", "pending", "error" }

\* The numbers of bytes the port takes of the buffer in one poll: none, a
\* part, or all.
WriteSizes(buf) ==
    { 0, IF Len(buf) < PartialWrite THEN Len(buf) ELSE PartialWrite, Len(buf) }

\* One poll of the sink's flush over the write buffer buf, the call having
\* written sofar: the port takes n bytes, then the poll comes to outcome.
\* The call returns Ok only with the whole buffer on the link.
poll_flush(buf, sofar, n, outcome) ==
    /\ n \in WriteSizes(buf)
    /\ wbuf' = Advance(buf, n)
    /\ written' = sofar \o Take(buf, n)
    /\ CASE outcome = "ready" ->
                 /\ n = Len(buf)
                 /\ sendRet' = Ok
                 /\ sendState' = "idle"
                 /\ UNCHANGED failures
         [] outcome = "pending" ->
                 /\ sendState' = "pending"
                 /\ UNCHANGED << sendRet, failures >>
         [] outcome = "error" ->
                 /\ sendRet' = MavlinkConnectionError
                 /\ sendState' = "idle"
                 /\ failures' = failures + 1

\* Telem::send(message) up to its first return to the executor: the counter,
\* the header, the encoding and the first poll of the flush.
send(message, outcome) ==
    LET header == MavHeader(sequence, system_id, component_id)
    IN /\ sendState = "idle"
       /\ \E buf \in {encode(header, message, wbuf)} :
            /\ sequence' = fetch_add(sequence)
            /\ sentHeader' = header
            /\ sentMsg' = message
            /\ encoded' = Advance(buf, Len(wbuf))
            /\ sendCount' = sendCount + 1
            /\ \E n \in WriteSizes(buf) : poll_flush(buf, << >>, n, outcome)
            /\ UNCHANGED << system_id, component_id, built >>

\* The suspended send call is polled again: the flush goes on with what is
\* left in the write buffer.
send_resume(outcome) ==
    /\ sendState = "pending"
    /\ \E n \in WriteSizes(wbuf) : poll_flush(wbuf, written, n, outcome)
    /\ UNCHANGED << system_id, component_id, sequence, encoded, sendCount,
                    sentHeader, sentMsg, built >>

\* Telem::heartbeat_message(): pure, the message is handed to the caller.
HeartbeatMessage ==
    /\ sendState = "idle"
    /\ built' = heartbeat_message
    /\ UNCHANGED << system_id, component_id, sequence, wbuf, written, encoded,
                    sendRet, sendState, sendCount, failures, sentHeader, sentMsg >>

TelemIds == { << 1, 1 >>, << 253, 190 >> }

InitSend ==
    /\ CodecInit(<< >>)
    /\ FramedInit
    /\ \E id \in TelemIds : try_new(id[1], id[2])
    /\ NoLoop

\* A send call that returns Ok without having been suspended.
SendOk ==
    /\ sendCount < MaxSends
    /\ \E m \in SendMessages : send(m, "ready")
    /\ UNCHANGED << codecVars, framedVars >>
    /\ UNCHANGED loopVars

\* A send call that fails without having been suspended.
SendFail ==
    /\ sendCount < MaxSends
    /\ failures < MaxSendFailures
    /\ \E m \in SendMessages : send(m, "error")
    /\ UNCHANGED << codecVars, framedVars >>
    /\ UNCHANGED loopVars

\* A send call that is suspended: the port is not ready.
SendSuspend ==
    /\ sendCount < MaxSends
    /\ \E m \in SendMessages : send(m, "pending")
    /\ UNCHANGED << codecVars, framedVars >>
    /\ UNCHANGED loopVars

\* The suspended send call is resumed.
SendResume(outcome) ==
    /\ outcome = "error" => failures < MaxSendFailures
    /\ send_resume(outcome)
    /\ UNCHANGED << codecVars, framedVars >>
    /\ UNCHANGED loopVars

NextSend ==
    \/ SendOk
    \/ SendFail
    \/ SendSuspend
    \/ \E outcome \in SendOutcomes : SendResume(outcome)

SpecSend == InitSend /\ [][NextSend]_vars

(***************************************************************************)
(* Telem::recv: the next item of the Framed stream.  A recv call runs the  *)
(* read loop of the Framed until it has an item to return or has to wait   *)
(* for the serial stream; it is resumed when the stream delivers bytes,    *)
(* reports its end or fails.                                               *)
(***************************************************************************)
RetNone == [kind |-> "None"]

RetSomeOk(item) == [kind |-> "SomeOk", header |-> item.header, msg |-> item.msg]

RetSomeErr(e) == [kind |-> "SomeErr", err |-> e.err]

\* The Framed is readable: decode (decode_eof at the end of the stream) runs
\* on the buffer `buf`.  An item or an error is returned to the caller; with
\* neither, the Framed goes on to read, or at the end of the stream returns
\* None for an empty buffer and an error for bytes left over.
Framing(buf, at_eof) ==
    \E r \in {decode(buf)} :
       /\ src' = r.src
       /\ last' = Outcome(r)
       /\ got' = IF r.ret.kind = "Some" THEN Append(got, r.ret) ELSE got
       /\ rejected' = IF r.branch = "crc_mismatch" THEN rejected + 1 ELSE rejected
       /\ suspended' = (suspended \/ Waiting(r.branch))
       /\ CASE r.ret.kind = "Some" ->
                 /\ recvRet' = RetSomeOk(r.ret)
                 /\ recvState' = "idle"
                 /\ is_readable' = TRUE
                 /\ UNCHANGED has_errored
            [] r.ret.kind = "Err" ->
                 /\ recvRet' = RetSomeErr(r.ret)
                 /\ recvState' = "idle"
                 /\ is_readable' = TRUE
                 /\ has_errored' = TRUE
            [] r.ret.kind = "None" /\ at_eof /\ r.src = << >> ->
                 /\ recvRet' = RetNone
                 /\ recvState' = "idle"
                 /\ is_readable' = FALSE
                 /\ UNCHANGED has_errored
            [] r.ret.kind = "None" /\ at_eof /\ r.src # << >> ->
                 /\ recvRet' = RetSomeErr(MavlinkConnectionError)
                 /\ recvState' = "idle"
                 /\ is_readable' = TRUE
                 /\ has_errored' = TRUE
            [] r.ret.kind = "None" /\ ~at_eof ->
                 /\ recvState' = "awaiting"
                 /\ is_readable' = FALSE
                 /\ UNCHANGED << recvRet, has_errored >>

\* The caller awaits recv(): after an error the stream ends once; a
\* readable buffer is decoded; otherwise the call waits for the stream.
RecvStartStep ==
    /\ recvState = "idle"
    /\ sendState = "idle"
    /\ IF has_errored
       THEN /\ is_readable' = FALSE
            /\ has_errored' = FALSE
            /\ recvRet' = RetNone
            /\ UNCHANGED << recvState, src, last, got, rejected, suspended >>
       ELSE IF is_readable
       THEN Framing(src, eof)
       ELSE /\ recvState' = "awaiting"
            /\ UNCHANGED << is_readable, has_errored, recvRet, src, last, got,
                            rejected, suspended >>
    /\ UNCHANGED << stream, wire, eof, closed, telemVars >>

RecvStart == RecvStartStep /\ UNCHANGED loopVars

\* The stream delivers k bytes to the waiting call.
RecvReadStep(k) ==
    /\ recvState = "awaiting"
    /\ sendState = "idle"
    /\ k \in 1..Len(wire)
    /\ wire' = Advance(wire, k)
    /\ eof' = FALSE
    /\ Framing(src \o Take(wire, k), FALSE)
    /\ UNCHANGED << stream, closed, telemVars >>

RecvRead(k) == RecvReadStep(k) /\ UNCHANGED loopVars

\* The stream reports its end (a read of no bytes) to the waiting call.
RecvEofStep ==
    /\ recvState = "awaiting"
    /\ sendState = "idle"
    /\ closed /\ wire = << >>
    /\ IF eof
       THEN /\ recvRet' = RetNone
            /\ recvState' = "idle"
            /\ UNCHANGED << eof, is_readable, has_errored, src, last, got,
                            rejected, suspended >>
       ELSE /\ eof' = TRUE
            /\ Framing(src, TRUE)
    /\ UNCHANGED << stream, wire, closed, telemVars >>

RecvEof == RecvEofStep /\ UNCHANGED loopVars

\* The read fails: the error is returned to the caller.
RecvReadErrorStep ==
    /\ recvState = "awaiting"
    /\ sendState = "idle"
    /\ has_errored' = TRUE
    /\ recvRet' = RetSomeErr(MavlinkConnectionError)
    /\ recvState' = "idle"
    /\ UNCHANGED << codecVars, is_readable, eof, closed, telemVars >>

RecvReadError == RecvReadErrorStep /\ UNCHANGED loopVars

\* The link reaches its end: no bytes follow those on the wire.
HangUp ==
    /\ ~closed
    /\ closed' = TRUE
    /\ UNCHANGED << codecVars, is_readable, eof, has_errored, recvState, recvRet,
                    telemVars >>
    /\ UNCHANGED loopVars

NextRecv ==
    \/ RecvStart
    \/ \E k \in 1..Len(wire) : RecvRead(k)
    \/ RecvEof
    \/ RecvReadError
    \/ HangUp

SpecRecv == Init /\ [][NextRecv]_vars

(***************************************************************************)
(* A session: one Telem that sends, receives and builds heartbeats.        *)
(***************************************************************************)
SessionStreams ==
    { << i >> : i \in CoreItems }
        \cup { << i, ValidItem(MavHeader(7, 1, 1), HeartbeatData(0, 2, 3, 81, 4, 3)) >> :
               i \in CoreItems }

InitSession ==
    /\ \E st \in SessionStreams : CodecInit(st)
    /\ FramedInit
    /\ try_new(1, 1)
    /\ NoLoop

SessionSendOk ==
    /\ sendCount < MaxSessionSends
    /\ send(heartbeat_message, "ready")
    /\ UNCHANGED << codecVars, framedVars >>
    /\ UNCHANGED loopVars

SessionSendFail ==
    /\ sendCount < MaxSessionSends
    /\ failures < MaxSendFailures
    /\ send(heartbeat_message, "error")
    /\ UNCHANGED << codecVars, framedVars >>
    /\ UNCHANGED loopVars

SessionSendSuspend ==
    /\ sendCount < MaxSessionSends
    /\ send(heartbeat_message, "pending")
    /\ UNCHANGED << codecVars, framedVars >>
    /\ UNCHANGED loopVars

SessionSendResume(outcome) ==
    /\ outcome = "error" => failures < MaxSendFailures
    /\ send_resume(outcome)
    /\ UNCHANGED << codecVars, framedVars >>
    /\ UNCHANGED loopVars

SessionHeartbeat ==
    /\ HeartbeatMessage
    /\ UNCHANGED << codecVars, framedVars >>
    /\ UNCHANGED loopVars

NextSession ==
    \/ RecvStart
    \/ \E k \in 1..Len(wire) : RecvRead(k)
    \/ RecvEof
    \/ RecvReadError
    \/ HangUp
    \/ SessionSendOk
    \/ SessionSendFail
    \/ SessionSendSuspend
    \/ \E outcome \in SendOutcomes : SessionSendResume(outcome)
    \/ SessionHeartbeat

SpecSession == InitSession /\ [][NextSession]_vars

(***************************************************************************)
(* Telem::send_float: a NAMED_VALUE_FLOAT message whose name field is      *)
(* from_string_to_u8(name).  A name is the sequence of the bytes of the    *)
(* string, a value the four bytes of the f32, little endian.               *)
(***************************************************************************)
NameLen == 10

MaxFloatSends == 1

\* A conversion that pads a short name with spaces.
from_string_to_u8_spaces(bytes, N) ==
    [i \in 1..N |-> IF i <= Len(bytes) THEN bytes[i] ELSE 32]

\* util::from_string_to_u8::<N>(src): dst = [0u8; N], then the first
\* min(bytes.len(), N) bytes of src copied over it.
from_string_to_u8(bytes, N) ==
    LET len == IF Len(bytes) < N THEN Len(bytes) ELSE N
    IN [i \in 1..N |-> IF i <= len THEN bytes[i] ELSE 0]

\* MavCommon::NAMED_VALUE_FLOAT_DATA { time_boot_ms, value, name }: on the
\* wire time_boot_ms, value, name.
NamedValueFloatData(time_boot_ms, value, name) ==
    [id |-> 251, payload |-> LeBytes4(time_boot_ms) \o value \o name]

FloatNames ==
    UNION { [1..n -> {65, 66}] : n \in 0..3 }
        \cup { [i \in 1..n |-> 96 + i] : n \in 9..12 }
        \cup { << 195, 169 >>, << 65, 0, 66 >>,
               [i \in 1..9 |-> 96 + i] \o << 195, 169 >> }

FloatValues == { << 0, 0, 0, 0 >>, << 0, 0, 128, 63 >> }

\* boot_time.elapsed().as_millis() as u32, for times that fit.
ElapsedMillis == { 0, 1000 }

\* Telem::send_float(name, value, boot_time).
send_float(name, value, elapsed, outcome) ==
    /\ send(NamedValueFloatData(elapsed, value, from_string_to_u8(name, NameLen)),
            outcome)
    /\ sentName' = name

InitFloat ==
    /\ CodecInit(<< >>)
    /\ FramedInit
    /\ try_new(1, 1)
    /\ NoLoop

SendFloat(outcome) ==
    /\ sendCount < MaxFloatSends
    /\ \E name \in FloatNames, value \in FloatValues, elapsed \in ElapsedMillis :
          send_float(name, value, elapsed, outcome)
    /\ UNCHANGED << codecVars, framedVars, now, period, deadline, ticks, pc >>

\* The suspended send_float call is resumed.
SendFloatResume(outcome) ==
    /\ send_resume(outcome)
    /\ UNCHANGED << codecVars, framedVars, loopVars >>

NextFloat ==
    \/ \E outcome \in SendOutcomes : SendFloat(outcome)
    \/ \E outcome \in SendOutcomes : SendFloatResume(outcome)

SpecFloat == InitFloat /\ [][NextFloat]_vars

(***************************************************************************)
(* heartbeat_stream: IntervalStream over tokio::time::interval(period).    *)
(* The interval's first tick is due at its creation and each later one a   *)
(* period after the one before (the default MissedTickBehavior, Burst): a  *)
(* tick whose deadline has passed completes at once.  The clock counts in  *)
(* whole units; the stream is created at instant 0.                        *)
(***************************************************************************)
MaxTime == 7

Periods == {1, 2, 3}

\* Interval::poll_tick, the next deadline: a period after the deadline of
\* the tick just taken, however late it is taken.
next_timeout(timeout, at, interval) == timeout + interval

\* A ticker whose first tick is due one period after its creation.
FirstDeadlineAfterPeriod(created, interval) == created + interval

\* The deadline of the first tick: the instant of creation.
FirstDeadline(created, interval) == created

\* heartbeat_stream(telem, interval): tokio::time::interval(interval), which
\* is interval_at(Instant::now(), interval).
heartbeat_stream(interval) ==
    /\ period = interval
    /\ deadline = FirstDeadline(now, interval)
    /\ ticks = << >>

\* heartbeat_stream.next().await completes: the deadline has been reached,
\* the trigger is yielded and the next deadline set.
StreamNextStep ==
    /\ now >= deadline
    /\ ticks' = Append(ticks, now)
    /\ deadline' = next_timeout(deadline, now, period)
    /\ UNCHANGED << now, period >>

InitTicker ==
    /\ CodecInit(<< >>)
    /\ FramedInit
    /\ try_new(1, 1)
    /\ sentName = << >>
    /\ now = 0
    /\ pc = "none"
    /\ \E p \in Periods : heartbeat_stream(p)

\* The consumer takes the next trigger.
StreamNext ==
    /\ StreamNextStep
    /\ UNCHANGED << codecVars, framedVars, telemVars, sentName, pc >>

\* Time passes, the consumer polling or not.
TimePasses ==
    /\ now < MaxTime
    /\ now' = now + 1
    /\ UNCHANGED << codecVars, framedVars, telemVars, sentName, period, deadline,
                    ticks, pc >>

NextTicker == StreamNext \/ TimePasses

SpecTicker == InitTicker /\ [][NextTicker]_vars

(***************************************************************************)
(* The main loop of the sensor binary.  Each turn awaits, one after the    *)
(* other, the next heartbeat trigger (and sends the heartbeat), one recv   *)
(* call, the sensors, and a short sleep.  The clock counts in units of the *)
(* sleep; the heartbeat period is scaled down to LoopPeriod units.  Time   *)
(* passes only while the loop waits.                                       *)
(***************************************************************************)
LoopPeriod == 3

SleepTime == 1

LoopStreams ==
    { << >>,
      << ValidItem(MavHeader(7, 1, 1), HeartbeatData(1, 0, 0, 0, 0, 0)) >>,
      << UnparsedItem(MavHeader(7, 1, 1), 3, << 1, 2 >>),
         ValidItem(MavHeader(7, 1, 1), HeartbeatData(1, 0, 0, 0, 0, 0)) >> }

\* main up to the loop: the Telem, then the heartbeat stream.
InitLoop ==
    /\ \E st \in LoopStreams : CodecInit(st)
    /\ FramedInit
    /\ try_new(1, 1)
    /\ sentName = << >>
    /\ now = 0
    /\ heartbeat_stream(LoopPeriod)
    /\ pc = "heartbeat"

\* if let Some(heartbeat_message) = heartbeat_stream.next().await
LoopHeartbeat ==
    /\ pc = "heartbeat"
    /\ StreamNextStep
    /\ pc' = "send"
    /\ UNCHANGED << codecVars, framedVars, telemVars, sentName >>

\* Where main goes on from telem.send(..).await?: on Ok to recv, on an error
\* out of main; a suspended call keeps main in the await.
AfterSend(outcome) ==
    CASE outcome = "ready" -> "recv"
      [] outcome = "error" -> "exited"
      [] outcome = "pending" -> "send"

\* telem.send(heartbeat_message).await?  An error ends main.
LoopSend(outcome) ==
    /\ pc = "send"
    /\ send(heartbeat_message, outcome)
    /\ pc' = AfterSend(outcome)
    /\ UNCHANGED << codecVars, framedVars, sentName, now, period, deadline, ticks >>

\* The send call in progress is polled again.
LoopSendResume(outcome) ==
    /\ pc = "send"
    /\ send_resume(outcome)
    /\ pc' = AfterSend(outcome)
    /\ UNCHANGED << codecVars, framedVars, sentName, now, period, deadline, ticks >>

\* What the loop does with the value of telem.recv().await: Some(Ok(..)) is
\* matched on its message, anything else is passed over.
AfterRecv == IF recvState' = "idle" THEN "sensors" ELSE "recv"

\* if let Some(Ok((_header, message))) = telem.recv().await: the call.
LoopRecv ==
    /\ pc = "recv"
    /\ RecvStartStep
    /\ pc' = AfterRecv
    /\ UNCHANGED << sentName, now, period, deadline, ticks >>

\* The recv call in progress is handed bytes, the end of the stream or a
\* read error.
LoopRecvRead(k) ==
    /\ pc = "recv"
    /\ RecvReadStep(k)
    /\ pc' = AfterRecv
    /\ UNCHANGED << sentName, now, period, deadline, ticks >>

LoopRecvEof ==
    /\ pc = "recv"
    /\ RecvEofStep
    /\ pc' = AfterRecv
    /\ UNCHANGED << sentName, now, period, deadline, ticks >>

LoopRecvReadError ==
    /\ pc = "recv"
    /\ RecvReadErrorStep
    /\ pc' = AfterRecv
    /\ UNCHANGED << sentName, now, period, deadline, ticks >>

\* The sensors: each enabled sensor is awaited for its next reading, which
\* is logged (handle_sensor_data(..).await?); a failure ends main.
LoopSensors(ok) ==
    /\ pc = "sensors"
    /\ pc' = IF ok THEN "sleep" ELSE "exited"
    /\ UNCHANGED << codecVars, framedVars, telemVars, sentName, now, period,
                    deadline, ticks >>

\* tokio::time::sleep(Duration::from_millis(1)).await
LoopSleep ==
    /\ pc = "sleep"
    /\ now + SleepTime <= MaxTime
    /\ now' = now + SleepTime
    /\ pc' = "heartbeat"
    /\ UNCHANGED << codecVars, framedVars, telemVars, sentName, period, deadline,
                    ticks >>

\* The loop is waiting: for the tick, for the link or for a sensor.
Blocked ==
    \/ pc = "heartbeat" /\ now < deadline
    \/ pc = "send" /\ sendState = "pending"
    \/ pc = "recv" /\ recvState = "awaiting"
    \/ pc = "sensors"

\* Time passes while the loop waits.
LoopWait ==
    /\ Blocked
    /\ now < MaxTime
    /\ now' = now + 1
    /\ UNCHANGED << codecVars, framedVars, telemVars, sentName, period, deadline,
                    ticks, pc >>

NextLoop ==
    \/ LoopHeartbeat
    \/ \E outcome \in SendOutcomes : LoopSend(outcome)
    \/ \E outcome \in SendOutcomes : LoopSendResume(outcome)
    \/ LoopRecv
    \/ \E k \in 1..Len(wire) : LoopRecvRead(k)
    \/ LoopRecvEof
    \/ LoopRecvReadError
    \/ \E ok \in BOOLEAN : LoopSensors(ok)
    \/ LoopSleep
    \/ LoopWait
    \/ HangUp

SpecLoop == InitLoop /\ [][NextLoop]_vars

(***************************************************************************)
(* Claims about the decoder.                                               *)
(***************************************************************************)
\* Whether the stream is one well-formed frame and nothing else.
OneValidFrame == Len(stream) = 1 /\ stream[1].kind = "valid"

\* C1: chunk-boundary independence.  When the stream is one valid frame fed
\* to an empty buffer in chunks of any sizes, with decode run after each
\* append, no frame is accepted before the last byte has been fed and
\* exactly one is accepted once it has, however often decode runs again.
C1_ChunkIndependence ==
    OneValidFrame => Len(got) = (IF wire = << >> THEN 1 ELSE 0)

\* The frame arrived in more than one chunk (decode suspended on a partial
\* frame) and was accepted once.
C1_Witness ==
    OneValidFrame /\ wire = << >> /\ suspended /\ Len(got) = 1

\* C2: resynchronization.  A well-formed frame of the stream is never
\* consumed without being accepted, whatever false marker or corrupted
\* frame precedes it: once the decoder has consumed the marker byte of a
\* valid frame, that frame is among the accepted ones.
C2_NoFrameLost ==
    \A i \in 1..Len(stream) :
        (stream[i].kind = "valid" /\ Cursor > Offset(stream, i))
            => \E j \in 1..Len(got) : got[j] = stream[i].expect

\* C3: on a CRC mismatch the decoder consumes exactly one byte, the marker.
C3_OneByteOnMismatch ==
    last.branch = "crc_mismatch" => last.taken = 1

\* C10: forward progress.  A decode call that rejects a candidate for its
\* CRC has consumed at least the marker byte of that candidate, and decode
\* run again and again on the buffered bytes ends up with nothing to
\* report: from some point on every call returns for want of input.
C10_ForwardProgress ==
    /\ [](last.branch = "crc_mismatch" => last.taken >= 1)
    /\ <>[]Quiescent

\* A candidate has just been rejected for its CRC, its marker consumed.
C10_Witness ==
    last.branch = "crc_mismatch" /\ last.taken >= 1 /\ last.index = 0

\* C6: corruption isolation.  When the stream is one frame with a single
\* payload bit flipped, decode never accepts a frame, and once the whole
\* frame has been fed it has rejected exactly one candidate for its CRC.
C6_CorruptionIsolation ==
    (Len(stream) = 1 /\ stream[1].kind = "corrupt")
        => /\ got = << >>
           /\ rejected = (IF wire = << >> THEN 1 ELSE 0)

\* A corrupted frame has been fed completely and rejected.
C6_Witness ==
    /\ Len(stream) = 1 /\ stream[1].kind = "corrupt"
    /\ wire = << >> /\ rejected = 1 /\ got = << >>

(***************************************************************************)
(* Claims about Telem::send.                                               *)
(***************************************************************************)
\* C5: round trip.  The bytes encode produces for a header and a message,
\* given to decode in an empty buffer, are accepted as that header and that
\* message, and nothing is left in the buffer.
C5_RoundTrip ==
    sendCount > 0 =>
        LET r == decode(encoded)
        IN r.ret = Some(sentHeader, sentMsg) /\ r.src = << >>

\* A frame whose header holds the marker value as its sequence number and
\* whose payload was truncated has been encoded.
C5_Witness ==
    /\ sendCount > 0
    /\ sentHeader.sequence = MAV_STX_V2
    /\ sentMsg = HeartbeatData(1, 0, 0, 0, 0, 0)
    /\ Len(encoded) = 13

\* C7: sequence monotonicity.  The k-th send call of a session carries
\* sequence number (k - 1) mod 256, the counter of a fresh session being 0,
\* and leaves the counter at k mod 256.
C7_SequenceMonotonic ==
    sendCount > 0 =>
        /\ sentHeader.sequence = (sendCount - 1) % 256
        /\ sequence = sendCount % 256

\* The counter has wrapped: the 257th call carried sequence number 0.
C7_Witness == sendCount = 257 /\ sentHeader.sequence = 0 /\ sequence = 1

\* C8: a send call that fails has advanced the counter by exactly one and
\* does not roll it back.  The call carries the counter's previous value
\* and leaves the counter one further (mod 256) when it starts; no later
\* poll of the call moves the counter; and when the call returns its error,
\* at once or after suspensions, the counter stands one past the sequence
\* number the call carried.
C8_NoRollback ==
    [][ /\ sendCount' = sendCount + 1
          => /\ sequence' = (sequence + 1) % 256
             /\ sentHeader'.sequence = sequence
        /\ sendState = "pending"
          => /\ sequence' = sequence
             /\ sentHeader' = sentHeader
        /\ failures' = failures + 1
          => /\ sendRet'.kind = "Err"
             /\ sequence' = (sentHeader'.sequence + 1) % 256 ]_vars

\* A send call has failed after the counter had wrapped, with a part of its
\* frame on the link and the rest in the write buffer.
C8_Witness ==
    /\ sendRet.kind = "Err" /\ sendState = "idle"
    /\ sendCount = 257 /\ sentHeader.sequence = 0 /\ sequence = 1
    /\ Len(written) = PartialWrite
    /\ written \o wbuf = encoded

(***************************************************************************)
(* Claims about Telem::recv and the session.                               *)
(***************************************************************************)
\* C4: recv never surfaces a checksum or payload-decode rejection.  Every
\* error recv returns to its caller is a transport error (the connection
\* error); the parsing error never reaches the caller.
C4_RecvNeverSurfacesRejection ==
    recvRet.kind = "SomeErr" => recvRet.err = MavlinkConnectionError.err

\* C9 as stated: the counter is mutated only by successful send calls.  A
\* step that is not the start of a send call leaves the counter unchanged,
\* and a send call that returns an error leaves the counter at the value it
\* had before the call, which is the sequence number the call carried.
C9_OnlySuccessfulSendMutates ==
    [][ /\ sendCount' = sendCount => sequence' = sequence
        /\ failures' = failures + 1 => sequence' = sentHeader'.sequence ]_vars

\* C9 amended: the counter is mutated only by send calls, and by every one
\* of them.  A step that changes the counter is the start of a send call,
\* whether the call then succeeds, fails or is suspended, and advances it
\* by one (mod 256); a step that is no start of a send call (the resumption
\* of a suspended call, recv, heartbeat_message, the stream) leaves it
\* unchanged.
C9_OnlySendMutates ==
    [][ /\ sequence' # sequence => sendCount' = sendCount + 1
        /\ sendCount' = sendCount + 1 => sequence' = (sequence + 1) % 256
        /\ sendCount' = sendCount => sequence' = sequence ]_vars

\* A send call has failed after a suspension, recv has returned a frame and
\* a heartbeat has been built in one session, whose counter stands at 1.
C9_Witness ==
    /\ sendRet.kind = "Err"
    /\ sendState = "idle"
    /\ Len(written) = PartialWrite
    /\ sendCount = 1
    /\ sequence = 1
    /\ recvRet.kind = "SomeOk"
    /\ built = heartbeat_message

(***************************************************************************)
(* Claims about signed frames.                                             *)
(***************************************************************************)
\* C11: signed-frame trailer discard.  A complete signed frame is consumed
\* with its 13 signature bytes, 12 + payload_len + 13 bytes in all, whether
\* it is accepted or rejected for its CRC; the signature bytes have no part
\* in the CRC (the well-formed frame is accepted and the corrupted one
\* rejected whatever the signature holds), and none of them is left in
\* front of a frame that follows, which is accepted.
C11_SignedTrailerDiscard ==
    LET first == stream[1]
        n == Len(first.bytes)
        total == Len(StreamBytes(stream))
    IN /\ n = MessageLen(first.bytes[2], TRUE)
       /\ Cursor \in {0, n, total}
       /\ Cursor >= n =>
            IF first.kind = "signed"
            THEN rejected = 0 /\ Len(got) >= 1 /\ got[1] = first.expect
            ELSE rejected = 1
       /\ (Cursor = total /\ Len(stream) = 2) =>
            got[Len(got)] = stream[2].expect

\* A signed frame was rejected for its CRC and consumed with its signature,
\* and the frame behind the signature was accepted.
C11_Witness ==
    /\ stream[1].kind = "signed_corrupt" /\ Len(stream) = 2
    /\ rejected = 1
    /\ got = << stream[2].expect >>
    /\ last.branch = "accepted" /\ src = << >> /\ wire = << >>

(***************************************************************************)
(* Claims about the heartbeat stream.                                      *)
(***************************************************************************)
\* C13 as stated: the first trigger comes only after one full period has
\* elapsed since the creation of the stream (instant 0), never at once.
C13_FirstTickAfterPeriod ==
    ticks # << >> => ticks[1] >= period

\* C13 amended: the first trigger is due at the creation of the stream, so
\* it is yielded as soon as the stream is polled, and the n-th trigger is
\* due (n - 1) periods after the creation and never yielded before.
C13_FirstTickAtCreation ==
    /\ deadline = Len(ticks) * period
    /\ \A n \in 1..Len(ticks) : ticks[n] >= (n - 1) * period

\* The first trigger was yielded at the instant of creation, the second a
\* period of 3 later.
C13_Witness ==
    period = 3 /\ Len(ticks) = 2 /\ ticks[1] = 0 /\ ticks[2] = 3

\* C14: coalescing.  When the consumer has lagged, it receives one trigger
\* for the lag: once a trigger has been yielded, the next one is not due
\* yet, so no backlog of missed ticks is yielded back to back.
C14_Coalesced ==
    ticks # << >> => deadline > ticks[Len(ticks)]

(***************************************************************************)
(* Claims about the main loop.                                             *)
(***************************************************************************)
\* C12: a transport error is fatal to the session.  Once send or recv has
\* returned the connection error, no send call and no recv call follows:
\* nothing more is sent, read or returned on the session.
C12_TransportErrorFatal ==
    [][ (sendRet = MavlinkConnectionError \/ recvRet = RetSomeErr(MavlinkConnectionError))
          => UNCHANGED << sendCount, recvRet, recvState, wire, got >> ]_vars

\* C16: the loop dispatches whichever source is ready first.  The loop is
\* never found waiting for the link while a heartbeat trigger has been due
\* for a whole period: on a silent link a heartbeat goes out every period.
C16_DispatchReadyFirst ==
    ~(pc = "recv" /\ recvState = "awaiting" /\ now >= deadline + period)

(***************************************************************************)
(* Claims about send_float.                                                *)
(***************************************************************************)
\* C15: the name field of the message send_float sends has exactly NameLen
\* bytes: the first min(len(name), NameLen) bytes of the name, then zeros.
\* The frame encoded for it decodes to a message with that same field.
C15_NameField ==
    sendCount > 0 =>
        LET field == Advance(sentMsg.payload, 8)
            n == IF Len(sentName) < NameLen THEN Len(sentName) ELSE NameLen
            r == decode(encoded)
        IN /\ Len(field) = NameLen
           /\ \A i \in 1..n : field[i] = sentName[i]
           /\ \A i \in (n + 1)..NameLen : field[i] = 0
           /\ r.ret.kind = "Some"
           /\ Advance(r.ret.msg.payload, 8) = field

\* A name of 11 bytes whose last character straddles the end of the field
\* has been sent truncated.
C15_Witness ==
    /\ sendCount > 0
    /\ sentName = [i \in 1..9 |-> 96 + i] \o << 195, 169 >>
    /\ Advance(sentMsg.payload, 8) = [i \in 1..9 |-> 96 + i] \o << 195 >>

(***************************************************************************)
(* Claims about extraction, catalog failures, suspension and the scan.     *)
(***************************************************************************)
\* C17: complete extraction.  recv does not wait for bytes from the stream
\* while a complete valid frame is in the buffer: whenever the call is
\* suspended in a read, decode on the buffer would not return a frame.
C17_CompleteExtraction ==
    recvState = "awaiting" => decode(src).ret.kind # "Some"

\* The stream is a frame the catalog cannot parse, then a well-formed one.
UnparsedThenValid ==
    IF Len(stream) = 2
    THEN stream[1].kind = "unparsed" /\ stream[2].kind = "valid"
    ELSE FALSE

\* The second frame of the stream, and nothing else, has been accepted.
FollowerAccepted ==
    IF Len(stream) = 2
    THEN got = << stream[2].expect >> /\ src = << >>
    ELSE FALSE

\* C18: a frame with a matching CRC that the catalog fails to parse has
\* been consumed whole when decode returns the error (12 + payload_len
\* bytes from the marker of that frame on, and 13 more when it is signed),
\* and a well-formed frame that follows it in the stream is produced by
\* recv: once the whole stream has arrived, recv is not left waiting for
\* bytes from the link unless the follower has been accepted.
C18_FollowerProduced ==
    /\ last.branch = "parse_error" =>
            \E i \in 1..Len(stream) :
               /\ stream[i].kind = "unparsed"
               /\ last.taken = Len(stream[i].bytes)
               /\ last.taken = MessageLen(stream[i].bytes[2],
                                          HasSignature(stream[i].bytes[3]))
               /\ Cursor = Offset(stream, i) + last.taken
    /\ (UnparsedThenValid /\ wire = << >> /\ recvState = "awaiting")
            => FollowerAccepted

\* C19: suspension without consumption.  A decode call that finds a marker
\* but not the whole frame behind it (or not the length and flags) returns
\* nothing and leaves the buffer holding everything from the marker on;
\* when the next call suspends too, the buffer is the one before with the
\* new bytes appended.
C19_SuspensionKeepsFrame ==
    [][ LET chunk == Take(wire, Len(wire) - Len(wire'))
        IN /\ Waiting(last'.branch) =>
                /\ last'.ret = None
                /\ last'.taken = 0
                /\ got' = got
                /\ src' # << >>
                /\ src'[1] = MAV_STX_V2
                /\ \/ Len(src') < 3
                   \/ Len(src') < MessageLen(src'[2], HasSignature(src'[3]))
           /\ (Waiting(last.branch) /\ Waiting(last'.branch)) => src' = src \o chunk
      ]_vars

\* A partial frame of 12 bytes is held after more than one suspension.
C19_Witness ==
    last.branch = "need_more" /\ Len(src) = 12 /\ Len(wire) = 1 /\ OneValidFrame

\* C20: marker scan.  When the buffer decode is given holds a marker, the
\* bytes in front of the first marker, and in front of the marker only, are
\* dropped; when it holds none, decode returns nothing and the buffer is
\* left as it was.
C20_MarkerScan ==
    [][ LET buf == src \o Take(wire, Len(wire) - Len(wire'))
            markers == { i \in 1..Len(buf) : buf[i] = MAV_STX_V2 }
        IN IF markers = {}
           THEN last'.branch = "no_marker" /\ last'.ret = None /\ src' = buf
                   /\ got' = got
           ELSE LET first == CHOOSE i \in markers : \A j \in markers : i <= j
                IN /\ last'.index = first - 1
                   /\ Len(src') = Len(buf) - (first - 1) - last'.taken
                   /\ last'.taken = 0 => src' = Advance(buf, first - 1)
      ]_vars

\* Two bytes of noise were dropped in front of a marker, and a buffer
\* without a marker had been left alone before.
C20_Witness ==
    /\ last.index = 2 /\ src # << >> /\ src[1] = MAV_STX_V2
    /\ stream[1] = NoiseItem(<< 0, 17 >>)

(***************************************************************************)
(* Claims about the extraction.                                            *)
(***************************************************************************)
\* C21: decode never reads or advances past the buffered bytes.  A decode
\* call extracts a frame exactly when the buffer holds, from its first
\* marker on, the message_len bytes computed from the peeked length and
\* flags; it then consumes the marker, 9 header bytes, the payload, 2 CRC
\* bytes and the 13 signature bytes of a signed frame, which is that
\* message_len and no more than is buffered, and leaves the bytes behind
\* them as they were.
C21_ConsumptionIsMessageLen ==
    [][ LET buf == src \o Take(wire, Len(wire) - Len(wire'))
            markers == { i \in 1..Len(buf) : buf[i] = MAV_STX_V2 }
            extracted == last'.branch \in {"accepted", "parse_error", "crc_mismatch"}
        IN IF markers = {}
           THEN ~extracted
           ELSE LET first == CHOOSE i \in markers : \A j \in markers : i <= j
                    s0 == Advance(buf, first - 1)
                IN IF Len(s0) < 3
                   THEN ~extracted
                   ELSE LET message_len ==
                                1 + 9 + s0[2] + 2 + (IF s0[3] % 2 = 1 THEN 13 ELSE 0)
                        IN /\ extracted <=> (Len(s0) >= message_len)
                           /\ extracted =>
                                /\ last'.taken = message_len
                                /\ last'.taken <= Len(s0)
                                /\ src' = Advance(s0, message_len)
      ]_vars

\* A signed candidate with a payload of 255 bytes has been extracted: 280
\* bytes consumed, and the frame behind it still in the buffer.
C21_Witness ==
    /\ last.branch \in {"parse_error", "crc_mismatch"}
    /\ last.taken = 280
    /\ Len(src) = 13

====
